---- MODULE Spec2Model ----
\* A state-machine model of the copcPotree conversion scripts:
\*   convert_las_to_tiled_copc.py   (latitude tiler)
\*   convert_copc_to_potree.py      (single COPC file -> Potree)
\*   convert_to_potree.py           (HDF -> LAS -> COPC -> Potree)
\*   convert_all_copc_to_potree.py  (batch driver)
\* One run of one script is one behaviour: Init picks the script and its
\* inputs (command line, what exists on disk); the external tools are opaque,
\* so every invocation draws its outcome from the outcomes subprocess.run
\* can have.
EXTENDS Integers, Sequences, FiniteSets, TLC

VARIABLES
    script,       \* which entry point runs
    argsOk,       \* the command line has the shape the script expects
    inputExists,  \* the input path (file or directory) exists
    pc,           \* position of the run
    status,       \* process exit status; -1 while the run has not ended
    reason,       \* why the run ended
    spawned,      \* external processes started so far, in order
    outDir,       \* the output directory: "absent" or "dir"
    outDir0,      \* the output directory as it was before the run
    stepRc,       \* how the pdal step and the PotreeConverter step ended
    \* ---- latitude tiler
    tmode,        \* "single" (<input.las>) or "all" (--all <las_dir>)
    nLas,         \* number of *.las files the glob finds
    fileIdx,      \* index of the file being tiled
    lasLat,       \* latitude (Y) of the point held by the file being tiled
    band,         \* index into tiles of the band being processed
    rc,           \* per band: how subprocess.run ended
    report,       \* per band: what was printed, "created" or "error"
    tileFile,     \* per band: the band's .copc.laz on disk
    tilePts,      \* per band: the latitudes written to the band's file
    \* ---- convert_copc_to_potree.py
    tempLas,      \* the temporary LAS file of main
    pipelineFile, \* the temporary pipeline JSON of reproject_copc_to_las
    potreeOut,    \* "absent" or "written": PotreeConverter's output tree
    meta,         \* the metadata.json PotreeConverter left in the output
    verifyRes,    \* what verify_potree_metadata did: "true", "false", "raise"
    \* ---- convert_to_potree.py
    keep,         \* keep_intermediate
    explicitPath, \* --potree-path: "none", or whether the given path exists
    onPath,       \* shutil.which finds PotreeConverter
    commonOk,     \* the indices of common_paths that exist
    potreeExec,   \* what check_potree_converter returned
    lasFile,      \* the intermediate <base>.las
    copcFile,     \* the intermediate <base>.copc.laz
    \* ---- convert_all_copc_to_potree.py
    nFiles,       \* number of *.copc.laz files the glob finds
    copcFiles,    \* copc_files: the names of the files the glob finds
    jobDir,       \* per file: the output_dir convert_single_file computed
    maxWorkers,   \* max_workers
    response,     \* the answer to the confirmation prompt
    started,      \* files whose conversion was started
    running,      \* files whose child process is running
    fut,          \* per file: how its conversion ended
    doneQ,        \* pool mode: finished futures not yet collected, in order
    results,      \* the results list: <<file, success>> in append order
    summary,      \* the counts printed by the summary
    \* ---- data/run_copc_tests.py, generate_test_summary
    tests,        \* config['test_configurations']: the display names, in order
    tests0,       \* the catalog as it was loaded
    testIdx,      \* number of catalog entries the loop has been through
    categories    \* per category: the entries appended, as catalog indices

tilerVars == <<tmode, nLas, fileIdx, lasLat, band, rc, report, tileFile, tilePts>>

commonVars == <<script, argsOk, inputExists, pc, status, reason, spawned,
                outDir, outDir0, stepRc>>

c2pVars == <<tempLas, pipelineFile, potreeOut, meta, verifyRes>>

hdfVars == <<keep, explicitPath, onPath, commonOk, potreeExec, lasFile, copcFile>>

batchVars == <<nFiles, copcFiles, jobDir, maxWorkers, response, started, running, fut, doneQ,
               results, summary>>

summaryVars == <<tests, tests0, testIdx, categories>>

vars == <<commonVars, tilerVars, c2pVars, hdfVars, batchVars, summaryVars>>

\* ------------------------------------------------------------------ bounds

\* Largest number of *.las files in the directory given to --all.
MaxLas == 2

\* Largest number of *.copc.laz files in the batch driver's input directory.
MaxFiles == 3

\* Largest max_workers tried for the batch driver (the source sets 1).
MaxWorkers == 2

\* Largest number of entries in the test catalog.
MaxTests == 2

\* ------------------------------------------------------------- common parts

Scripts == {"tiler", "copc2potree", "hdf2potree", "batch", "summary"}

\* No external step of the job has run yet.
NoSteps == [pdal |-> "none", potree |-> "none"]

\* A file on disk: missing, present with size 0, present with content.
FileStates == {"absent", "empty", "data"}

\* ------------------------------------------------------------------ tiler

\* tiles, in list order.
Tiles ==
    << [name |-> "south",     lat_min |-> -90, lat_max |-> -30],
       [name |-> "south_mid", lat_min |-> -30, lat_max |-> 0],
       [name |-> "north_mid", lat_min |-> 0,   lat_max |-> 30],
       [name |-> "north",     lat_min |-> 30,  lat_max |-> 90] >>

Bands == 1..Len(Tiles)

\* Sample latitudes: the band boundaries, the extremes, and interior values.
LatSamples == {-90, -60, -31, -30, -29, -1, 0, 1, 29, 30, 31, 60, 90}

\* The "limits" option of the filters.range stage: f"Y[{lat_min}:{lat_max}]".
\* The text is kept as its parts: dimension, opening bracket, the two bounds,
\* closing bracket.
RangeLimits(tile) ==
    [dim |-> "Y", open |-> "[", lo |-> tile.lat_min,
     hi |-> tile.lat_max, close |-> "]"]

\* What filters.range does with a limits text: a square bracket includes the
\* bound, a parenthesis excludes it.
RangeSelects(lim, y) ==
    /\ IF lim.open = "[" THEN lim.lo <= y ELSE lim.lo < y
    /\ IF lim.close = "]" THEN y <= lim.hi ELSE y < lim.hi

\* How subprocess.run(..., capture_output=True, check=True) followed by
\* copc_path.stat() can end:
\*   "exc"            run raises something other than CalledProcessError
\*                    (the pdal binary is missing): nothing is spawned
\*   "nonzero"        exit status != 0, stderr is valid UTF-8
\*   "nonzero_binary" exit status != 0, stderr is not valid UTF-8
\*   "zero_data"      exit status 0, output written and non-empty
\*   "zero_empty"     exit status 0, output written with size 0
\*   "zero_nofile"    exit status 0, no output written
PdalOutcomes ==
    {"exc", "nonzero", "nonzero_binary", "zero_data", "zero_empty", "zero_nofile"}

\* The process was started (subprocess.run got as far as an exit status).
Started(o) == o # "exc"

\* The points of the file being tiled (none when the file does not exist).
LasPoints == IF inputExists THEN {lasLat} ELSE {}

NoBands == [b \in Bands |-> "none"]

NoFiles == [b \in Bands |-> "absent"]

NoPts == [b \in Bands |-> {}]

\* What one pass of the loop body prints for the band: the try block prints
\* "Created" only when run returned and stat() found the file; both except
\* clauses print "Error".
BandReport(o) == IF o \in {"zero_data", "zero_empty"} THEN "created" ELSE "error"

\* The body of an except clause raises: e.stderr.decode() on bytes that are
\* not UTF-8 raises UnicodeDecodeError inside the CalledProcessError handler,
\* and no other clause of the same try catches it.
HandlerRaises(o) == o = "nonzero_binary"

\* __main__ and process_all_las_files up to the first call of
\* split_las_to_tiles, and that call's entry up to the loop.
TilerStart ==
    /\ script = "tiler" /\ pc = "start"
    /\ IF ~argsOk
       THEN /\ pc' = "done" /\ status' = 1 /\ reason' = "usage"
            /\ UNCHANGED <<outDir, fileIdx, lasLat>>
       ELSE IF tmode = "all" /\ nLas = 0
       THEN \* not las_files: print and return; the script ends normally
            /\ pc' = "done" /\ status' = 0 /\ reason' = "no_inputs"
            /\ UNCHANGED <<outDir, fileIdx, lasLat>>
       ELSE /\ pc' = "tile_loop" /\ outDir' = "dir" /\ fileIdx' = 1
            /\ lasLat' \in LatSamples
            /\ UNCHANGED <<status, reason>>
    /\ band' = 1
    /\ UNCHANGED <<stepRc, outDir0, script, argsOk, inputExists,
                   spawned, tmode, nLas,
                   rc, report, tileFile, tilePts>>
    /\ UNCHANGED <<c2pVars, hdfVars, batchVars, summaryVars>>

\* One pass of "for tile in tiles": build the pipeline, run pdal, report.
\* After the last band split_las_to_tiles returns: the script ends, or
\* process_all_las_files calls it for the next file.
TileBand ==
    /\ script = "tiler" /\ pc = "tile_loop"
    /\ \E o \in PdalOutcomes :
        LET lim == RangeLimits(Tiles[band])
            last == band = Len(Tiles)
            more == tmode = "all" /\ fileIdx < nLas
        IN
        /\ spawned' = IF Started(o) THEN Append(spawned, "pdal") ELSE spawned
        /\ rc' = [rc EXCEPT ![band] = o]
        /\ report' = [report EXCEPT ![band] = BandReport(o)]
        /\ tileFile' = [tileFile EXCEPT ![band] =
                           CASE o = "zero_data" -> "data"
                             [] o = "zero_empty" -> "empty"
                             [] OTHER -> @]
        /\ tilePts' = [tilePts EXCEPT ![band] =
                          IF o = "zero_data"
                          THEN {y \in LasPoints : RangeSelects(lim, y)}
                          ELSE @]
        /\ IF HandlerRaises(o)
           THEN \* the exception leaves split_las_to_tiles; __main__ catches it
                /\ pc' = "done" /\ status' = 1 /\ reason' = "exception"
                /\ UNCHANGED <<band, fileIdx, lasLat>>
           ELSE IF ~last
           THEN /\ band' = band + 1
                /\ UNCHANGED <<pc, status, reason, fileIdx, lasLat>>
           ELSE IF more
           THEN /\ pc' = "next_file"
                /\ UNCHANGED <<band, status, reason, fileIdx, lasLat>>
           ELSE /\ pc' = "done" /\ status' = 0 /\ reason' = "completed"
                /\ UNCHANGED <<band, fileIdx, lasLat>>
    /\ UNCHANGED <<stepRc, outDir0, script, argsOk, inputExists,
                   outDir, tmode, nLas>>
    /\ UNCHANGED <<c2pVars, hdfVars, batchVars, summaryVars>>

\* process_all_las_files: the next file of the loop enters split_las_to_tiles.
\* The per-band records are those of the file being tiled.
TilerNextFile ==
    /\ script = "tiler" /\ pc = "next_file"
    /\ pc' = "tile_loop"
    /\ fileIdx' = fileIdx + 1
    /\ lasLat' \in LatSamples
    /\ band' = 1
    /\ rc' = NoBands /\ report' = NoBands
    /\ tileFile' = NoFiles /\ tilePts' = NoPts
    /\ UNCHANGED <<stepRc, outDir0, script, argsOk, inputExists,
                   status, reason, spawned,
                   outDir, tmode, nLas>>
    /\ UNCHANGED <<c2pVars, hdfVars, batchVars, summaryVars>>

\* ------------------------------------------------- convert_copc_to_potree

\* How subprocess.run(cmd, capture_output=True, text=True, check=True) can end:
\*   "notfound"     FileNotFoundError: no such executable, nothing is spawned
\*   "oserror"      another OSError (not executable): nothing is spawned
\*   "undecodable"  the process ran, its output is not text in the locale's
\*                  encoding: run raises UnicodeDecodeError
\*   "nonzero"      exit status != 0: CalledProcessError
\*   "zero"         exit status 0
RunOutcomes == {"notfound", "oserror", "undecodable", "nonzero", "zero"}

RunStarted(o) == o \in {"undecodable", "nonzero", "zero"}

\* Sample longitudes, latitudes and altitudes of a boundingBox: in range, on
\* the limits the sanity check uses, and beyond them.
BoxLon == {-181, -180, -10, 45, 180, 200}

BoxLat == {-91, -90, 60, 90, 95}

BoxAlt == {30, 100, 101}

\* Sample metadata.json documents a PotreeConverter run can leave behind:
\* none, one that is not JSON, one with no boundingBox, one whose max is
\* missing, and documents whose boundingBox min and max are triples.
MetaDocs ==
    {[exists |-> FALSE, json |-> FALSE, min |-> <<>>, max |-> <<>>],
     [exists |-> TRUE, json |-> FALSE, min |-> <<>>, max |-> <<>>],
     [exists |-> TRUE, json |-> TRUE, min |-> <<>>, max |-> <<>>],
     [exists |-> TRUE, json |-> TRUE, min |-> <<-10, 60, 30>>, max |-> <<>>]}
    \cup
    {[exists |-> TRUE, json |-> TRUE, min |-> <<lon0, lat0, alt0>>,
      max |-> <<lon1, lat1, alt1>>] :
        lon0 \in BoxLon, lat0 \in BoxLat, alt0 \in BoxAlt,
        lon1 \in BoxLon, lat1 \in BoxLat, alt1 \in BoxAlt}

Abs(x) == IF x < 0 THEN -x ELSE x

\* verify_potree_metadata with the limits themselves refused (>= for >).
verify_refuses_limits(m) ==
    IF ~m.exists THEN "false"
    ELSE IF ~m.json THEN "raise"
    ELSE IF Len(m.min) >= 3 /\ Len(m.max) >= 3
    THEN IF Abs(m.min[1]) >= 180 \/ Abs(m.max[1]) >= 180 THEN "false"
         ELSE IF Abs(m.min[2]) >= 90 \/ Abs(m.max[2]) >= 90 THEN "false"
         ELSE IF m.max[3] >= 100 THEN "false"
         ELSE "true"
    ELSE "false"

\* verify_potree_metadata: "false" for a warning, "true" for success,
\* "raise" when json.load raises on the file.
verify_potree_metadata(m) ==
    IF ~m.exists THEN "false"
    ELSE IF ~m.json THEN "raise"
    ELSE IF Len(m.min) >= 3 /\ Len(m.max) >= 3
    THEN IF Abs(m.min[1]) > 180 \/ Abs(m.max[1]) > 180 THEN "false"
         ELSE IF Abs(m.min[2]) > 90 \/ Abs(m.max[2]) > 90 THEN "false"
         ELSE IF m.max[3] > 100 THEN "false"
         ELSE "true"
    ELSE "false"

\* reproject_copc_to_las with the failure of pdal swallowed: True is returned
\* from the except clause as well.
reproject_swallows_failure(o) ==
    CASE o \in {"zero", "nonzero"} -> "true"
      [] OTHER -> "raise"

\* What reproject_copc_to_las gives for an outcome of its subprocess.run:
\* True, False (CalledProcessError is caught), or the exception it lets out.
reproject_copc_to_las(o) ==
    CASE o = "zero" -> "true"
      [] o = "nonzero" -> "false"
      [] OTHER -> "raise"

\* What convert_las_to_potree gives: CalledProcessError and FileNotFoundError
\* are caught and give False.
convert_las_to_potree(o) ==
    CASE o = "zero" -> "true"
      [] o \in {"nonzero", "notfound"} -> "false"
      [] OTHER -> "raise"

\* main without its finally clause: the temporary LAS file stays.
MainFinallyKeeps(f) == f

\* The finally clause of main: the temporary LAS file is removed if it exists.
MainFinally(f) == "absent"

\* The finally clause of reproject_copc_to_las: os.unlink(pipeline_file).
ReprojectFinally(f) == "absent"

\* main up to the try block: argument count, input check, output directory,
\* temporary LAS file.
C2PStart ==
    /\ script = "copc2potree" /\ pc = "start"
    /\ IF ~argsOk
       THEN /\ pc' = "done" /\ status' = 1 /\ reason' = "usage"
            /\ UNCHANGED <<outDir, tempLas>>
       ELSE IF ~inputExists
       THEN /\ pc' = "done" /\ status' = 1 /\ reason' = "input_not_found"
            /\ UNCHANGED <<outDir, tempLas>>
       ELSE /\ pc' = "reproject"
            /\ outDir' = "dir"
            /\ tempLas' = "empty"
            /\ UNCHANGED <<status, reason>>
    /\ UNCHANGED <<stepRc, outDir0, script, argsOk, inputExists, spawned,
                   pipelineFile, potreeOut, meta, verifyRes>>
    /\ UNCHANGED <<tilerVars, hdfVars, batchVars, summaryVars>>

\* reproject_copc_to_las up to the try block: the pipeline is written to a
\* temporary file that is kept when closed (delete=False).
C2PWritePipeline ==
    /\ script = "copc2potree" /\ pc = "reproject"
    /\ pc' = "pdal"
    /\ pipelineFile' = "data"
    /\ UNCHANGED <<stepRc, outDir0, script, argsOk, inputExists,
                   status, reason, spawned,
                   outDir, tempLas, potreeOut, meta, verifyRes>>
    /\ UNCHANGED <<tilerVars, hdfVars, batchVars, summaryVars>>

\* The rest of reproject_copc_to_las (run pdal, finally unlink the pipeline
\* file) and main's reaction: on False, sys.exit(1) through the finally
\* clause; an exception other than CalledProcessError leaves main the same way.
C2PRunPdal ==
    /\ script = "copc2potree" /\ pc = "pdal"
    /\ \E o \in RunOutcomes, w \in {"empty", "data"} :
        LET las == IF RunStarted(o) THEN w ELSE tempLas IN
        /\ spawned' = IF RunStarted(o) THEN Append(spawned, "pdal") ELSE spawned
        /\ stepRc' = [stepRc EXCEPT !.pdal = o]
        /\ pipelineFile' = ReprojectFinally(pipelineFile)
        /\ IF reproject_copc_to_las(o) = "true"
           THEN /\ pc' = "potree" /\ tempLas' = las
                /\ UNCHANGED <<status, reason>>
           ELSE /\ pc' = "done" /\ status' = 1
                /\ reason' = IF reproject_copc_to_las(o) = "false"
                             THEN "processing_error" ELSE "exception"
                /\ tempLas' = MainFinally(las)
    /\ UNCHANGED <<outDir0, script, argsOk, inputExists, outDir, potreeOut, meta,
                   verifyRes>>
    /\ UNCHANGED <<tilerVars, hdfVars, batchVars, summaryVars>>

\* convert_las_to_potree and main's reaction. CalledProcessError and
\* FileNotFoundError are caught and give False; anything else propagates.
C2PRunPotree ==
    /\ script = "copc2potree" /\ pc = "potree"
    /\ \E o \in RunOutcomes, m \in MetaDocs :
        /\ spawned' = IF RunStarted(o) THEN Append(spawned, "PotreeConverter")
                      ELSE spawned
        /\ stepRc' = [stepRc EXCEPT !.potree = o]
        /\ IF convert_las_to_potree(o) = "true"
           THEN /\ pc' = "verify" /\ potreeOut' = "written" /\ meta' = m
                /\ UNCHANGED <<status, reason, tempLas>>
           ELSE /\ pc' = "done" /\ status' = 1
                /\ reason' = CASE o = "nonzero" -> "processing_error"
                               [] o = "notfound" -> "tool_not_found"
                               [] OTHER -> "exception"
                /\ tempLas' = MainFinally(tempLas)
                /\ UNCHANGED <<potreeOut, meta>>
    /\ UNCHANGED <<outDir0, script, argsOk, inputExists, outDir, pipelineFile,
                   verifyRes>>
    /\ UNCHANGED <<tilerVars, hdfVars, batchVars, summaryVars>>

\* Step 3 of main and its end: the result of verify_potree_metadata is not
\* looked at; main falls off its end unless the verification raised.
C2PVerify ==
    /\ script = "copc2potree" /\ pc = "verify"
    /\ verifyRes' = verify_potree_metadata(meta)
    /\ pc' = "done"
    /\ IF verifyRes' = "raise"
       THEN status' = 1 /\ reason' = "exception"
       ELSE status' = 0 /\ reason' = "completed"
    /\ tempLas' = MainFinally(tempLas)
    /\ UNCHANGED <<stepRc, outDir0, script, argsOk, inputExists,
                   spawned, outDir,
                   pipelineFile, potreeOut, meta>>
    /\ UNCHANGED <<tilerVars, hdfVars, batchVars, summaryVars>>

\* --------------------------------------------------------- convert_to_potree

\* common_paths, in list order.
CommonPaths ==
    << "/usr/local/bin/PotreeConverter", "/usr/bin/PotreeConverter",
       "~/PotreeConverter/build/PotreeConverter", "~/bin/PotreeConverter" >>

NotFound == [found |-> FALSE, via |-> "none", path |-> "none"]

\* The smallest element of a non-empty set of integers.
MinOf(S) == CHOOSE x \in S : \A y \in S : x <= y

\* check_potree_converter going on to the search path and the common
\* locations when the explicit path does not exist.
check_falls_through(explicit, which, common) ==
    IF explicit = "exists"
    THEN [found |-> TRUE, via |-> "explicit", path |-> "potree_path"]
    ELSE IF which
    THEN [found |-> TRUE, via |-> "search_path", path |-> "which"]
    ELSE IF common # {}
    THEN [found |-> TRUE, via |-> "common", path |-> CommonPaths[MinOf(common)]]
    ELSE NotFound

\* check_potree_converter looking at the common locations before the search
\* path.
check_common_before_which(explicit, which, common) ==
    IF explicit # "none"
    THEN IF explicit = "exists"
         THEN [found |-> TRUE, via |-> "explicit", path |-> "potree_path"]
         ELSE NotFound
    ELSE IF common # {}
    THEN [found |-> TRUE, via |-> "common", path |-> CommonPaths[MinOf(common)]]
    ELSE IF which
    THEN [found |-> TRUE, via |-> "search_path", path |-> "which"]
    ELSE NotFound

\* check_potree_converter(potree_path): explicit is "none" when no path is
\* given, else whether the given path exists; which: shutil.which found the
\* tool; common: the indices of common_paths that exist.
check_potree_converter(explicit, which, common) ==
    IF explicit # "none"
    THEN IF explicit = "exists"
         THEN [found |-> TRUE, via |-> "explicit", path |-> "potree_path"]
         ELSE NotFound
    ELSE IF which
    THEN [found |-> TRUE, via |-> "search_path", path |-> "which"]
    ELSE IF common # {}
    THEN [found |-> TRUE, via |-> "common", path |-> CommonPaths[MinOf(common)]]
    ELSE NotFound

\* convert_calipso_to_las(hdf_path, las_path), the HDF-to-LAS collaborator:
\* it produces the LAS file, or raises and leaves none; it cannot produce
\* one from an input that does not exist.
CalipsoOutcomes(hdfExists) == IF hdfExists THEN {"ok", "raise"} ELSE {"raise"}

\* The clean-up of the intermediate files at the end of the try block.
HdfCleanup(f, keepFlag) == IF keepFlag THEN f ELSE "absent"

\* The output directory created before the tool is looked for.
MkdirBeforeCheck(found, d) == "dir"

\* output_dir.mkdir(exist_ok=True) stands after the
\* "if not potree_exec: raise RuntimeError": it runs only when the tool was
\* found.
MkdirAfterCheck(found, d) == IF found THEN "dir" ELSE d

\* main (argparse) and convert_hdf_to_potree up to the try block.
HdfStart ==
    /\ script = "hdf2potree" /\ pc = "start"
    /\ IF ~argsOk
       THEN \* parser.parse_args() prints the usage and exits with status 2
            /\ pc' = "done" /\ status' = 2 /\ reason' = "usage"
            /\ UNCHANGED <<outDir, potreeExec>>
       ELSE LET exec == check_potree_converter(explicitPath, onPath, commonOk) IN
            /\ potreeExec' = exec
            /\ outDir' = MkdirAfterCheck(exec.found, outDir)
            /\ IF ~exec.found
               THEN pc' = "done" /\ status' = 1 /\ reason' = "tool_not_found"
               ELSE pc' = "hdf_las" /\ UNCHANGED <<status, reason>>
    /\ UNCHANGED <<stepRc, outDir0, script, argsOk, inputExists,
                   spawned, keep, explicitPath,
                   onPath, commonOk, lasFile, copcFile>>
    /\ UNCHANGED <<tilerVars, c2pVars, batchVars, summaryVars>>

\* Step 1/3. An exception reaches "except Exception", is raised again, and
\* main exits with status 1. Nothing is removed on that path.
HdfToLas ==
    /\ script = "hdf2potree" /\ pc = "hdf_las"
    /\ \E o \in CalipsoOutcomes(inputExists) :
        IF o = "ok"
        THEN /\ lasFile' = "data" /\ pc' = "hdf_copc"
             /\ UNCHANGED <<status, reason>>
        ELSE /\ pc' = "done" /\ status' = 1 /\ reason' = "exception"
             /\ UNCHANGED lasFile
    /\ UNCHANGED <<stepRc, outDir0, script, argsOk, inputExists,
                   spawned, outDir, keep,
                   explicitPath, onPath, commonOk, potreeExec, copcFile>>
    /\ UNCHANGED <<tilerVars, c2pVars, batchVars, summaryVars>>

\* Step 2/3, convert_las_to_copc: CalledProcessError is raised again after
\* its message; a missing pdal binary and a failing stat() raise as well.
HdfLasToCopc ==
    /\ script = "hdf2potree" /\ pc = "hdf_copc"
    /\ \E o \in PdalOutcomes, w \in {"absent", "data"} :
        /\ spawned' = IF Started(o) THEN Append(spawned, "pdal") ELSE spawned
        /\ stepRc' = [stepRc EXCEPT !.pdal = o]
        /\ copcFile' = CASE o = "zero_data" -> "data"
                         [] o = "zero_empty" -> "empty"
                         [] o \in {"nonzero", "nonzero_binary"} -> w
                         [] OTHER -> copcFile
        /\ IF o \in {"zero_data", "zero_empty"}
           THEN pc' = "hdf_potree" /\ UNCHANGED <<status, reason>>
           ELSE /\ pc' = "done" /\ status' = 1
                /\ reason' = IF o = "nonzero" THEN "processing_error"
                             ELSE "exception"
    /\ UNCHANGED <<outDir0, script, argsOk, inputExists, outDir, keep,
                   explicitPath, onPath, commonOk, potreeExec, lasFile>>
    /\ UNCHANGED <<tilerVars, c2pVars, batchVars, summaryVars>>

\* Step 3/3, convert_copc_to_potree, and the end of the try block: the
\* intermediate files are removed only here, after all three steps succeeded.
HdfCopcToPotree ==
    /\ script = "hdf2potree" /\ pc = "hdf_potree"
    /\ \E o \in RunOutcomes :
        /\ spawned' = IF RunStarted(o) THEN Append(spawned, "PotreeConverter")
                      ELSE spawned
        /\ stepRc' = [stepRc EXCEPT !.potree = o]
        /\ pc' = "done"
        /\ IF o = "zero"
           THEN /\ status' = 0 /\ reason' = "completed"
                /\ lasFile' = HdfCleanup(lasFile, keep)
                /\ copcFile' = HdfCleanup(copcFile, keep)
           ELSE /\ status' = 1
                /\ reason' = IF o = "nonzero" THEN "processing_error"
                             ELSE "exception"
                /\ UNCHANGED <<lasFile, copcFile>>
    /\ UNCHANGED <<outDir0, script, argsOk, inputExists, outDir, keep, explicitPath,
                   onPath, commonOk, potreeExec>>
    /\ UNCHANGED <<tilerVars, c2pVars, batchVars, summaryVars>>

\* ------------------------------------------------ convert_all_copc_to_potree

\* Answers to the prompt; "eof" is end of input, where input() raises EOFError.
Responses == {"y", "Y", "n", "N", "", "yes", "eof"}

\* response.lower()
Lower(r) == CASE r = "Y" -> "y" [] r = "N" -> "n" [] OTHER -> r

Files == 1..nFiles

\* Sample file names matching *.copc.laz, kept as their pieces: a.copc.laz,
\* a.copc.copc.laz, b.copc.laz, a.b.copc.laz.
CopcNameSamples ==
    << <<"a", ".copc", ".laz">>, <<"a", ".copc", ".copc", ".laz">>,
       <<"b", ".copc", ".laz">>, <<"a", ".b", ".copc", ".laz">> >>

\* Path.stem: the name without its last suffix.
Stem(name) == SubSeq(name, 1, Len(name) - 1)

NotCopc(piece) == piece # ".copc"

\* str.replace('.copc', ''): every occurrence is removed.
RemoveCopc(text) == SelectSeq(text, NotCopc)

\* output_dir of convert_single_file, below output_base_dir.
OutputDir(name) == RemoveCopc(Stem(name))

\* No output_dir computed yet.
NoDirs == [i \in 1..MaxFiles |-> <<>>]

\* The k-th smallest element of a set of integers.
KthOf(S, k) == CHOOSE x \in S : Cardinality({y \in S : y < x}) = k - 1

\* The directory listings of n files with names among the samples.
Listings(n) ==
    { [k \in 1..n |-> CopcNameSamples[KthOf(S, k)]] :
        S \in {T \in SUBSET (1..Len(CopcNameSamples)) : Cardinality(T) = n} }

NoFut == [i \in 1..MaxFiles |-> "none"]

NoSummary == [succ |-> -1, fail |-> -1]

\* The two buckets of the summary: r[1] of the source is r[2] here.
Summary(res) ==
    [succ |-> Cardinality({k \in 1..Len(res) : res[k][2]}),
     fail |-> Cardinality({k \in 1..Len(res) : ~res[k][2]})]

\* convert_single_file: the result tuple's success flag for exit status 0
\* ("ok") and for CalledProcessError ("failed"); any other exception of
\* subprocess.run is not caught ("exc").
ConvertResult(o) ==
    CASE o = "zero" -> "ok"
      [] o = "nonzero" -> "failed"
      [] OTHER -> "exc"

\* A sequential loop that starts the next child without waiting.
SeqMayStartNoWait == TRUE

\* The sequential loop calls convert_single_file and waits for it to return
\* before the next pass.
SeqMayStart == running = {}

\* main without the check of the glob's result.
NoInputsUnchecked(n) == FALSE

\* "if not copc_files": the glob found nothing.
NoInputs(n) == n = 0

\* main up to the prompt.
BatchStart ==
    /\ script = "batch" /\ pc = "start"
    /\ IF ~argsOk
       THEN /\ pc' = "done" /\ status' = 1 /\ reason' = "usage"
            /\ UNCHANGED outDir
       ELSE IF ~inputExists
       THEN /\ pc' = "done" /\ status' = 1 /\ reason' = "input_not_found"
            /\ UNCHANGED outDir
       ELSE IF NoInputs(nFiles)
       THEN /\ pc' = "done" /\ status' = 1 /\ reason' = "no_inputs"
            /\ UNCHANGED outDir
       ELSE /\ pc' = "prompt"
            /\ outDir' = "dir"
            /\ UNCHANGED <<status, reason>>
    /\ UNCHANGED <<stepRc, outDir0, script, argsOk, inputExists, spawned>>
    /\ UNCHANGED <<tilerVars, c2pVars, hdfVars, batchVars, summaryVars>>

\* The answer to input() and the choice of the mode.
BatchRespond ==
    /\ script = "batch" /\ pc = "prompt"
    /\ \E r \in Responses :
        /\ response' = r
        /\ IF r = "eof"
           THEN pc' = "done" /\ status' = 1 /\ reason' = "exception"
           ELSE IF Lower(r) # "y"
           THEN pc' = "done" /\ status' = 0 /\ reason' = "declined"
           ELSE /\ pc' = IF maxWorkers = 1 THEN "seq" ELSE "pool"
                /\ UNCHANGED <<status, reason>>
    /\ UNCHANGED <<stepRc, outDir0, copcFiles, jobDir, script, argsOk, inputExists,
                   spawned, outDir, nFiles,
                   maxWorkers, started, running, fut, doneQ, results, summary>>
    /\ UNCHANGED <<tilerVars, c2pVars, hdfVars, summaryVars>>

\* Sequential mode: convert_single_file starts the child for the next file.
\* When python3 cannot be started the OSError leaves convert_single_file and
\* main.
SeqStart ==
    /\ script = "batch" /\ pc = "seq"
    /\ SeqMayStart
    /\ LET i == Cardinality(started) + 1 IN
        /\ i <= nFiles
        /\ started' = started \cup {i}
        /\ jobDir' = [jobDir EXCEPT ![i] = OutputDir(copcFiles[i])]
        /\ \E ok \in BOOLEAN :
            IF ok
            THEN /\ running' = running \cup {i}
                 /\ spawned' = Append(spawned, "python3")
                 /\ UNCHANGED <<pc, status, reason, fut>>
            ELSE /\ fut' = [fut EXCEPT ![i] = "exc"]
                 /\ pc' = "done" /\ status' = 1 /\ reason' = "exception"
                 /\ UNCHANGED <<running, spawned>>
    /\ UNCHANGED <<stepRc, outDir0, copcFiles, script, argsOk, inputExists,
                   outDir, nFiles, maxWorkers,
                   response, doneQ, results, summary>>
    /\ UNCHANGED <<tilerVars, c2pVars, hdfVars, summaryVars>>

\* Sequential mode: the child ends, convert_single_file returns its tuple and
\* main appends it; after the last file main prints the summary and ends.
SeqFinish ==
    /\ script = "batch" /\ pc = "seq"
    /\ \E i \in running, o \in {"undecodable", "nonzero", "zero"} :
        LET r == ConvertResult(o)
            res == Append(results, <<i, r = "ok">>)
        IN
        /\ running' = running \ {i}
        /\ fut' = [fut EXCEPT ![i] = r]
        /\ IF r = "exc"
           THEN /\ pc' = "done" /\ status' = 1 /\ reason' = "exception"
                /\ UNCHANGED <<results, summary>>
           ELSE /\ results' = res
                /\ IF Len(res) = nFiles
                   THEN /\ summary' = Summary(res)
                        /\ pc' = "done" /\ status' = 0 /\ reason' = "completed"
                   ELSE UNCHANGED <<pc, status, reason, summary>>
    /\ UNCHANGED <<stepRc, outDir0, copcFiles, jobDir, script, argsOk, inputExists,
                   spawned, outDir, nFiles,
                   maxWorkers, response, started, doneQ>>
    /\ UNCHANGED <<tilerVars, c2pVars, hdfVars, summaryVars>>

\* Pool mode: a free worker takes the next submitted call and starts its
\* child; an OSError there ends the future with that exception. The pool
\* keeps working while main leaves the with block (shutdown waits).
PoolStart ==
    /\ script = "batch" /\ pc \in {"pool", "pool_abort"}
    /\ Cardinality(running) < maxWorkers
    /\ LET i == Cardinality(started) + 1 IN
        /\ i <= nFiles
        /\ started' = started \cup {i}
        /\ jobDir' = [jobDir EXCEPT ![i] = OutputDir(copcFiles[i])]
        /\ \E ok \in BOOLEAN :
            IF ok
            THEN /\ running' = running \cup {i}
                 /\ spawned' = Append(spawned, "python3")
                 /\ UNCHANGED <<fut, doneQ>>
            ELSE /\ fut' = [fut EXCEPT ![i] = "exc"]
                 /\ doneQ' = Append(doneQ, i)
                 /\ UNCHANGED <<running, spawned>>
    /\ UNCHANGED <<stepRc, outDir0, copcFiles, script, argsOk, inputExists,
                   pc, status, reason, outDir,
                   nFiles, maxWorkers, response, results, summary>>
    /\ UNCHANGED <<tilerVars, c2pVars, hdfVars, summaryVars>>

\* Pool mode: a child ends and its future completes.
PoolFinish ==
    /\ script = "batch" /\ pc \in {"pool", "pool_abort"}
    /\ \E i \in running, o \in {"undecodable", "nonzero", "zero"} :
        /\ running' = running \ {i}
        /\ fut' = [fut EXCEPT ![i] = ConvertResult(o)]
        /\ doneQ' = Append(doneQ, i)
    /\ UNCHANGED <<stepRc, outDir0, copcFiles, jobDir, script, argsOk, inputExists,
                   pc, status, reason, spawned,
                   outDir, nFiles, maxWorkers, response, started, results,
                   summary>>
    /\ UNCHANGED <<tilerVars, c2pVars, hdfVars, summaryVars>>

\* Pool mode: as_completed yields the next finished future; future.result()
\* returns the tuple or raises the worker's exception. After the last one
\* main prints the summary and ends.
PoolCollect ==
    /\ script = "batch" /\ pc = "pool"
    /\ doneQ # <<>>
    /\ LET i == Head(doneQ)
           res == Append(results, <<i, fut[i] = "ok">>)
       IN
        /\ doneQ' = Tail(doneQ)
        /\ IF fut[i] = "exc"
           THEN /\ pc' = "pool_abort"
                /\ UNCHANGED <<status, reason, results, summary>>
           ELSE /\ results' = res
                /\ IF Len(res) = nFiles
                   THEN /\ summary' = Summary(res)
                        /\ pc' = "done" /\ status' = 0 /\ reason' = "completed"
                   ELSE UNCHANGED <<pc, status, reason, summary>>
    /\ UNCHANGED <<stepRc, outDir0, copcFiles, jobDir, script, argsOk, inputExists,
                   spawned, outDir, nFiles,
                   maxWorkers, response, started, running, fut>>
    /\ UNCHANGED <<tilerVars, c2pVars, hdfVars, summaryVars>>

\* Pool mode: the exception of future.result() leaves main once the pool has
\* run every submitted call.
PoolAbortExit ==
    /\ script = "batch" /\ pc = "pool_abort"
    /\ running = {} /\ Cardinality(started) = nFiles
    /\ pc' = "done" /\ status' = 1 /\ reason' = "exception"
    /\ UNCHANGED <<stepRc, outDir0, copcFiles, jobDir, script, argsOk, inputExists,
                   spawned, outDir>>
    /\ UNCHANGED <<tilerVars, c2pVars, hdfVars, batchVars, summaryVars>>

\* ------------------------------------------------------------- whole model

InitCommon ==
    /\ script \in Scripts
    /\ argsOk \in BOOLEAN
    /\ inputExists \in BOOLEAN
    /\ pc = "start"
    /\ status = -1   \* no exit status yet
    /\ reason = "none"
    /\ spawned = <<>>
    /\ outDir \in {"absent", "dir"}
    /\ outDir0 = outDir
    /\ stepRc = NoSteps

InitTiler ==
    /\ IF script = "tiler"
       THEN /\ tmode \in {"single", "all"}
            /\ nLas \in IF tmode = "all" /\ inputExists THEN 0..MaxLas ELSE {0}
       ELSE tmode = "single" /\ nLas = 0
    /\ fileIdx = 0
    /\ lasLat = 0
    /\ band = 0
    /\ rc = NoBands /\ report = NoBands
    /\ tileFile = NoFiles /\ tilePts = NoPts

InitC2P ==
    /\ tempLas = "absent"
    /\ pipelineFile = "absent"
    /\ potreeOut = "absent"
    /\ meta = [exists |-> FALSE, json |-> FALSE, min |-> <<>>, max |-> <<>>]
    /\ verifyRes = "none"

InitHdf ==
    /\ IF script = "hdf2potree"
       THEN /\ keep \in BOOLEAN
            /\ explicitPath \in {"none", "exists", "missing"}
            /\ onPath \in BOOLEAN
            /\ commonOk \in SUBSET (1..Len(CommonPaths))
       ELSE /\ keep = FALSE /\ explicitPath = "none"
            /\ onPath = FALSE /\ commonOk = {}
    /\ potreeExec = NotFound
    /\ lasFile = "absent"
    /\ copcFile = "absent"

\* ------------------------------------------------- data/run_copc_tests.py

\* Sample display names. A name is kept as its pieces, cut where a category
\* keyword starts and ends: 'X' in name, a substring test, holds exactly when
\* X is one of the pieces. "mobile" and "Budgeting" are pieces that hold no
\* keyword (the test is case-sensitive).
NameSamples ==
    { <<"Mobile", " Low">>, <<"Desktop", " High">>, <<"Balanced">>,
      <<"Progressive", " Load">>, <<"Decimation", " x2">>,
      <<"Altitude", " 0-10 km">>, <<"Strong ", "Backscatter">>,
      <<"Recommended">>, <<"Detail", " Max">>, <<"Budget", " 1M">>,
      <<"Baseline">>, <<"mobile", " preview">>,
      <<"Desktop", " vs ", "Mobile">>,
      <<"Budget", " ", "Detail", " ", "Recommended">>,
      <<"High ", "Detail", " ", "Altitude">>,
      <<"Backscatter", " ", "Decimation">> }

\* 'kw' in test['name']
Contains(name, kw) == \E k \in 1..Len(name) : name[k] = kw

\* The if/elif chain with 'Desktop' tested before 'Mobile'.
CategoryDesktopFirst(name) ==
    IF Contains(name, "Desktop") THEN "Desktop"
    ELSE IF Contains(name, "Mobile") THEN "Mobile"
    ELSE IF Contains(name, "Balanced") THEN "Balanced"
    ELSE IF Contains(name, "Progressive") THEN "Progressive"
    ELSE IF Contains(name, "Decimation") THEN "Decimation"
    ELSE IF Contains(name, "Altitude") THEN "Altitude Filters"
    ELSE IF Contains(name, "Backscatter") THEN "Backscatter Filters"
    ELSE IF Contains(name, "Recommended") THEN "Recommended"
    ELSE IF Contains(name, "Detail") THEN "Detail Levels"
    ELSE IF Contains(name, "Budget") THEN "Point Budget"
    ELSE "Other"

\* cat, as the if/elif chain of the loop body sets it.
Category(name) ==
    IF Contains(name, "Mobile") THEN "Mobile"
    ELSE IF Contains(name, "Desktop") THEN "Desktop"
    ELSE IF Contains(name, "Balanced") THEN "Balanced"
    ELSE IF Contains(name, "Progressive") THEN "Progressive"
    ELSE IF Contains(name, "Decimation") THEN "Decimation"
    ELSE IF Contains(name, "Altitude") THEN "Altitude Filters"
    ELSE IF Contains(name, "Backscatter") THEN "Backscatter Filters"
    ELSE IF Contains(name, "Recommended") THEN "Recommended"
    ELSE IF Contains(name, "Detail") THEN "Detail Levels"
    ELSE IF Contains(name, "Budget") THEN "Point Budget"
    ELSE "Other"

\* Every value cat can take.
CategoryNames ==
    {"Mobile", "Desktop", "Balanced", "Progressive", "Decimation",
     "Altitude Filters", "Backscatter Filters", "Recommended",
     "Detail Levels", "Point Budget", "Other"}

\* categories = {}: a category that is not a key holds no entry.
NoCategories == [c \in CategoryNames |-> <<>>]

\* generate_test_summary up to the loop: the header is printed.
SummaryStart ==
    /\ script = "summary" /\ pc = "start"
    /\ pc' = "classify"
    /\ categories' = NoCategories
    /\ testIdx' = 0
    /\ UNCHANGED <<stepRc, outDir0, script, argsOk, inputExists, status, reason,
                   spawned, outDir, tests, tests0>>
    /\ UNCHANGED <<tilerVars, c2pVars, hdfVars, batchVars>>

\* One pass of "for test in tests": the entry is appended to the list of its
\* category, which is created when the category is new.
SummaryClassify ==
    /\ script = "summary" /\ pc = "classify"
    /\ testIdx < Len(tests)
    /\ LET cat == Category(tests[testIdx + 1]) IN
        categories' = [categories EXCEPT ![cat] = Append(@, testIdx + 1)]
    /\ testIdx' = testIdx + 1
    /\ UNCHANGED <<stepRc, outDir0, script, argsOk, inputExists, pc, status,
                   reason, spawned, outDir, tests, tests0>>
    /\ UNCHANGED <<tilerVars, c2pVars, hdfVars, batchVars>>

\* The loop is over; the categories are printed in sorted order.
SummaryPrint ==
    /\ script = "summary" /\ pc = "classify"
    /\ testIdx = Len(tests)
    /\ pc' = "printed"
    /\ UNCHANGED <<stepRc, outDir0, script, argsOk, inputExists, status, reason,
                   spawned, outDir>>
    /\ UNCHANGED <<tilerVars, c2pVars, hdfVars, batchVars, summaryVars>>

\* Catalogs of at most n entries.
Catalogs(n) == UNION {[1..k -> NameSamples] : k \in 0..n}

InitSummary ==
    /\ IF script = "summary"
       THEN /\ tests \in Catalogs(MaxTests)
            /\ argsOk /\ inputExists /\ outDir = "absent"
       ELSE tests = <<>>
    /\ tests0 = tests
    /\ testIdx = 0
    /\ categories = NoCategories

InitBatch ==
    /\ IF script = "batch"
       THEN /\ nFiles \in IF inputExists THEN 0..MaxFiles ELSE {0}
            /\ copcFiles \in Listings(nFiles)
            /\ maxWorkers \in 1..MaxWorkers
       ELSE nFiles = 0 /\ maxWorkers = 1 /\ copcFiles = <<>>
    /\ jobDir = NoDirs
    /\ response = "none"
    /\ started = {} /\ running = {}
    /\ fut = NoFut
    /\ doneQ = <<>> /\ results = <<>>
    /\ summary = NoSummary

Init ==
    InitCommon /\ InitTiler /\ InitC2P /\ InitHdf /\ InitBatch /\ InitSummary

Next ==
    \/ TilerStart
    \/ TileBand
    \/ TilerNextFile
    \/ C2PStart
    \/ C2PWritePipeline
    \/ C2PRunPdal
    \/ C2PRunPotree
    \/ C2PVerify
    \/ HdfStart
    \/ HdfToLas
    \/ HdfLasToCopc
    \/ HdfCopcToPotree
    \/ BatchStart
    \/ BatchRespond
    \/ SeqStart
    \/ SeqFinish
    \/ PoolStart
    \/ PoolFinish
    \/ PoolCollect
    \/ PoolAbortExit
    \/ SummaryStart
    \/ SummaryClassify
    \/ SummaryPrint

Spec == Init /\ [][Next]_vars

\* ------------------------------------------------------------------ claims

\* The set of values of a sequence.
Range(q) == {q[k] : k \in 1..Len(q)}

\* The tiler has left split_las_to_tiles for the file being tiled.
TilerFileEnded ==
    /\ script = "tiler"
    /\ pc \in {"done", "next_file"}
    /\ reason \notin {"usage", "no_inputs"}

\* C1: the four band filters partition the latitude range: when all four
\* bands of a file were written, every point of the file, also one whose
\* latitude is a band boundary (-30, 0, 30), is in exactly one band's output.
C1_BandsPartition ==
    (script = "tiler" /\ \A b \in Bands : rc[b] = "zero_data")
        => \A y \in LasPoints :
              Cardinality({b \in Bands : y \in tilePts[b]}) = 1

\* C2: a failing invocation for one band does not stop the loop: when
\* split_las_to_tiles is over, every band was attempted, and the bands
\* reported as created plus the bands reported as error are 4.
C2_AllBandsAttempted ==
    TilerFileEnded
        => /\ \A b \in Bands : rc[b] # "none"
           /\ Cardinality({b \in Bands : report[b] = "created"})
                + Cardinality({b \in Bands : report[b] = "error"}) = Len(Tiles)

\* C3: when the input file or directory does not exist, no entry point ever
\* spawns an external process (the run is to fail with input-not-found first).
C3_MissingInputNoSpawn ==
    (argsOk /\ ~inputExists) => spawned = <<>>

\* C4: a non-zero exit status of an external step ends the job as a failure
\* with no later step: no PotreeConverter after a failed pdal run (both
\* scripts), no metadata verification after a failed PotreeConverter run.
C4_FailedStepAborts ==
    /\ (script \in {"copc2potree", "hdf2potree"} /\ stepRc.pdal = "nonzero")
        => /\ pc = "done" /\ status = 1
           /\ stepRc.potree = "none"
           /\ "PotreeConverter" \notin Range(spawned)
           /\ verifyRes = "none"
    /\ (script = "copc2potree" /\ stepRc.potree = "nonzero")
        => /\ pc = "done" /\ status = 1
           /\ verifyRes = "none"

\* C4 witness: PotreeConverter failed after a successful reprojection.
C4_Witness ==
    /\ script = "copc2potree"
    /\ stepRc.pdal = "zero" /\ stepRc.potree = "nonzero"
    /\ pc = "done"

\* C5: once a convert_copc_to_potree job has ended, on any path, neither the
\* temporary pipeline JSON nor the temporary LAS file is on disk.
C5_TempFilesRemoved ==
    (script = "copc2potree" /\ pc = "done")
        => tempLas = "absent" /\ pipelineFile = "absent"

\* C5 witness: a job that ended after pdal wrote the temporary LAS file and
\* the verification raised.
C5_Witness ==
    /\ script = "copc2potree" /\ pc = "done"
    /\ stepRc.pdal = "zero" /\ stepRc.potree = "zero"
    /\ verifyRes = "raise"

\* C6: with keep_intermediate false, once convert_hdf_to_potree has ended,
\* by returning or by raising from any step, neither intermediate file exists.
C6_IntermediatesRemoved ==
    (script = "hdf2potree" /\ pc = "done" /\ ~keep)
        => lasFile = "absent" /\ copcFile = "absent"

\* C7: an answer other than y/Y, or end of input, ends the batch driver with
\* status 0, no conversion started, and the output directory as it was.
C7_DeclineLeavesNothing ==
    (script = "batch" /\ pc = "done" /\ response # "none"
        /\ Lower(response) # "y")
        => /\ status = 0
           /\ started = {} /\ spawned = <<>>
           /\ outDir = outDir0

\* C8: with no *.copc.laz file in the input directory the batch driver ends
\* with the no-inputs error (status 1), never prompts, starts no conversion
\* and leaves the output directory as it was.
C8_NoInputsNoWrites ==
    (script = "batch" /\ argsOk /\ inputExists /\ nFiles = 0)
        => /\ pc \in {"start", "done"}
           /\ pc = "done" => (status = 1 /\ reason = "no_inputs")
           /\ response = "none"
           /\ started = {} /\ spawned = <<>>
           /\ outDir = outDir0

\* C8 witness: the run ended on the empty glob with no output directory.
C8_Witness ==
    /\ script = "batch" /\ pc = "done" /\ reason = "no_inputs"
    /\ nFiles = 0 /\ outDir0 = "absent"

\* C9: after confirmation every per-file failure is that file's result and
\* the batch goes on: when the run has ended every discovered file was
\* attempted, each has exactly one result, and the summary's two counts add
\* up to the number of discovered files.
C9_BatchIsolation ==
    (script = "batch" /\ pc = "done" /\ Lower(response) = "y")
        => /\ started = Files
           /\ \A i \in Files :
                Cardinality({k \in 1..Len(results) : results[k][1] = i}) = 1
           /\ summary.succ + summary.fail = nFiles

\* C10: with max_workers = 1 jobs never overlap: at most one child runs, a
\* file is started only when every earlier file has ended with its result
\* recorded, and results are recorded in discovery order.
C10_SequentialNoOverlap ==
    (script = "batch" /\ maxWorkers = 1)
        => /\ Cardinality(running) <= 1
           /\ \A i \in started : \A j \in 1..(i - 1) :
                /\ j \notin running
                /\ j <= Len(results) /\ results[j][1] = j
           /\ \A k \in 1..Len(results) : results[k][1] = k

\* C10 witness: the second file runs after the first one's failure was
\* recorded.
C10_Witness ==
    /\ script = "batch" /\ maxWorkers = 1
    /\ Len(results) = 1 /\ ~results[1][2]
    /\ running = {2}

\* The metadata read by the verification holds a boundingBox whose min and
\* max are triples, and the verification has run.
VerifiedBox ==
    /\ script = "copc2potree" /\ verifyRes # "none"
    /\ meta.exists /\ meta.json
    /\ Len(meta.min) = 3 /\ Len(meta.max) = 3

LonOk(x) == -180 <= x /\ x <= 180

LatOk(y) == -90 <= y /\ y <= 90

\* C11 as stated: on a boundingBox of triples the verification never raises
\* and reports success exactly when both longitudes are in [-180, 180], both
\* latitudes in [-90, 90] and both altitudes at most 100.
C11_VerifyBothAltitudes ==
    VerifiedBox
        => /\ verifyRes # "raise"
           /\ verifyRes = "true"
                <=> /\ LonOk(meta.min[1]) /\ LonOk(meta.max[1])
                    /\ LatOk(meta.min[2]) /\ LatOk(meta.max[2])
                    /\ meta.min[3] <= 100 /\ meta.max[3] <= 100

\* C11 amended: the same with the altitude test on the max triple alone: the
\* verification never raises and reports success exactly when both longitudes
\* are in [-180, 180], both latitudes in [-90, 90] and the maximum altitude is
\* at most 100.
C11_VerifyMaxAltitude ==
    VerifiedBox
        => /\ verifyRes # "raise"
           /\ verifyRes = "true"
                <=> /\ LonOk(meta.min[1]) /\ LonOk(meta.max[1])
                    /\ LatOk(meta.min[2]) /\ LatOk(meta.max[2])
                    /\ meta.max[3] <= 100

\* C11 witness: longitudes -10 and 200 were verified and gave the warning.
C11_Witness ==
    /\ VerifiedBox
    /\ meta.min[1] = -10 /\ meta.max[1] = 200
    /\ verifyRes = "false"

\* C12: once reprojection and PotreeConverter have both exited with status 0,
\* the job ends as a success with exit status 0 and the Potree output in
\* place, whatever the metadata verification does.
C12_ValidationNeverFails ==
    (/\ script = "copc2potree" /\ pc = "done"
     /\ stepRc.pdal = "zero" /\ stepRc.potree = "zero")
        => /\ status = 0 /\ reason = "completed"
           /\ potreeOut = "written"

\* convert_hdf_to_potree has called check_potree_converter.
HdfResolved == script = "hdf2potree" /\ argsOk /\ pc # "start"

\* A tool-not-found run: the call raised RuntimeError and main exited with 1.
HdfNotFoundFails ==
    ~potreeExec.found
        => pc = "done" /\ status = 1 /\ reason = "tool_not_found"

\* C13 as stated: the executable is the first that resolves of the explicit
\* path, the search path and the common locations, and the run fails as
\* tool-not-found only if none of the three resolves.
C13_FirstResolvingStrategy ==
    HdfResolved
        => /\ potreeExec.via =
                IF explicitPath = "exists" THEN "explicit"
                ELSE IF onPath THEN "search_path"
                ELSE IF commonOk # {} THEN "common"
                ELSE "none"
           /\ ~potreeExec.found
                <=> explicitPath # "exists" /\ ~onPath /\ commonOk = {}
           /\ HdfNotFoundFails

\* C13 amended: an explicit path, when given, is the only strategy tried: the
\* result is that path if it exists and not-found otherwise. With no explicit
\* path the result is the search-path hit, else the first common location
\* that exists, else not-found. Not-found makes the run fail as
\* tool-not-found.
C13_ExplicitElseFallback ==
    HdfResolved
        => /\ explicitPath # "none"
                => potreeExec.via =
                       IF explicitPath = "exists" THEN "explicit" ELSE "none"
           /\ explicitPath = "none"
                => /\ potreeExec.via =
                         IF onPath THEN "search_path"
                         ELSE IF commonOk # {} THEN "common"
                         ELSE "none"
                   /\ potreeExec.via = "common"
                        => \E i \in commonOk :
                             /\ potreeExec.path = CommonPaths[i]
                             /\ \A j \in 1..(i - 1) : j \notin commonOk
           /\ potreeExec.found <=> potreeExec.via # "none"
           /\ HdfNotFoundFails

\* C13 witness: no explicit path, the tool both on the search path and in a
\* common location: the search path won.
C13_Witness ==
    /\ HdfResolved
    /\ explicitPath = "none" /\ onPath /\ commonOk # {}
    /\ potreeExec.via = "search_path"

\* C14: an invocation reported as a success left its output file on disk and
\* non-empty: the temporary LAS once reproject_copc_to_las returned True, the
\* COPC file once convert_las_to_copc returned, the tile of every band
\* reported as created.
C14_SuccessHasOutput ==
    /\ (script = "copc2potree" /\ pc = "potree") => tempLas = "data"
    /\ (script = "hdf2potree" /\ pc = "hdf_potree") => copcFile = "data"
    /\ script = "tiler"
        => \A b \in Bands : report[b] = "created" => tileFile[b] = "data"

\* C15: a script started with well-formed arguments ends with exit status 1
\* when its input is missing, when PotreeConverter cannot be resolved, or
\* when an external tool of the job exited non-zero, and with exit status 0
\* when the conversion went through.
C15_ExitStatus ==
    (pc = "done" /\ argsOk)
        => /\ ~inputExists => status = 1
           /\ (script = "hdf2potree" /\ ~potreeExec.found) => status = 1
           /\ (/\ script \in {"copc2potree", "hdf2potree"}
               /\ "nonzero" \in {stepRc.pdal, stepRc.potree}) => status = 1
           /\ (script = "copc2potree" /\ verifyRes = "true") => status = 0
           /\ (script = "hdf2potree" /\ stepRc.potree = "zero") => status = 0
           /\ (script = "tiler" /\ \A b \in Bands : report[b] = "created")
                => status = 0

\* The category keywords in the order the claim fixes, and the category each
\* stands for.
Keywords ==
    << "Mobile", "Desktop", "Balanced", "Progressive", "Decimation",
       "Altitude", "Backscatter", "Recommended", "Detail", "Budget" >>

KeywordCategory ==
    << "Mobile", "Desktop", "Balanced", "Progressive", "Decimation",
       "Altitude Filters", "Backscatter Filters", "Recommended",
       "Detail Levels", "Point Budget" >>

\* The positions in Keywords of the keywords that occur in the name.
Occurring(name) == {k \in 1..Len(Keywords) : Keywords[k] \in Range(name)}

FirstMatchCategory(name) ==
    IF Occurring(name) = {} THEN "Other"
    ELSE KeywordCategory[MinOf(Occurring(name))]

RECURSIVE SumLen(_, _)
SumLen(f, S) ==
    IF S = {} THEN 0
    ELSE LET c == CHOOSE x \in S : TRUE
         IN Len(f[c]) + SumLen(f, S \ {c})

\* C16: every catalog entry the loop has been through is in exactly one
\* category, the category of the first keyword of the fixed order that
\* occurs in its name, or Other when none occurs; the category sizes sum to
\* the number of entries gone through (all of them once the summary is
\* printed); the catalog is as it was loaded.
C16_FirstMatchCategories ==
    script = "summary"
        => /\ \A i \in 1..testIdx :
                \A c \in CategoryNames :
                    i \in Range(categories[c])
                        <=> c = FirstMatchCategory(tests[i])
           /\ \A c \in CategoryNames :
                \A j, k \in 1..Len(categories[c]) :
                    categories[c][j] = categories[c][k] => j = k
           /\ SumLen(categories, CategoryNames) = testIdx
           /\ pc = "printed" => testIdx = Len(tests)
           /\ tests = tests0

\* C16 witness: the summary was printed for a catalog with an entry whose
\* name holds two keywords, Desktop before Mobile, filed under Mobile.
C16_Witness ==
    /\ script = "summary" /\ pc = "printed"
    /\ \E i \in 1..Len(tests) :
        /\ tests[i] = <<"Desktop", " vs ", "Mobile">>
        /\ i \in Range(categories["Mobile"])

\* C17: any two distinct files of a batch whose conversion was started have
\* different output directories.
C17_JobsOwnTheirDirectory ==
    script = "batch"
        => \A i, j \in started :
               copcFiles[i] # copcFiles[j] => jobDir[i] # jobDir[j]

\* C18: when an explicit path is given the result is that path if it exists
\* and not-found otherwise, whatever the search path and the common
\* locations hold.
C18_ExplicitPathDecides ==
    (HdfResolved /\ explicitPath # "none")
        => potreeExec =
               IF explicitPath = "exists"
               THEN [found |-> TRUE, via |-> "explicit", path |-> "potree_path"]
               ELSE [found |-> FALSE, via |-> "none", path |-> "none"]

\* C18 witness: the explicit path does not exist, the tool is on the search
\* path and in a common location, and the result is not-found.
C18_Witness ==
    /\ HdfResolved
    /\ explicitPath = "missing" /\ onPath /\ commonOk # {}
    /\ ~potreeExec.found

\* C19: a run in which PotreeConverter was not resolved has ended with the
\* output directory as it was, no intermediate file written, and no external
\* process spawned.
C19_ResolutionBeforeSideEffects ==
    (HdfResolved /\ ~potreeExec.found)
        => /\ pc = "done" /\ status = 1
           /\ outDir = outDir0
           /\ lasFile = "absent" /\ copcFile = "absent"
           /\ spawned = <<>>
           /\ stepRc = NoSteps

\* C19 witness: a tool-not-found run whose output directory did not exist.
C19_Witness ==
    /\ HdfResolved /\ ~potreeExec.found
    /\ reason = "tool_not_found"
    /\ outDir0 = "absent" /\ inputExists

====
